---- MODULE Spec2Model ----
(***************************************************************************)
(* Model of vmaf/core/quality_runner.py: the score post-processing chain   *)
(* (rescale, polynomial transform, rectification, clip, legacy motion      *)
(* correction), the runner variants that use it, and the two log parsers.  *)
(*                                                                         *)
(* Python floats are modelled as exact rationals <<n, d>> in lowest terms  *)
(* with d > 0, so that equal numbers are equal values.  Python's None is   *)
(* the empty tuple and an optional value v that is present is <<v>>.       *)
(* Python dicts are functions whose DOMAIN is the set of keys present.     *)
(* Text (a log line, an XML attribute value) is a string, read one         *)
(* character at a time.                                                    *)
(* Each behaviour is one session: one direct call of a function, or the    *)
(* construction of one runner followed by its run on one asset.  TwinSpec  *)
(* constructs two runners of one class and runs both on the same asset.    *)
(***************************************************************************)
EXTENDS Integers, Sequences, FiniteSets, TLC

VARIABLES
    op,             \* the operation that produced the current state
    runner,         \* the runner instance: its class TYPE and optional_dict
    pc,             \* where the runner instance is in its life
    events,         \* the calls made to external collaborators, in order
    model_file,     \* the model artifact at the runner's model file path
    ys_pred,        \* the value of model.predict(xs)
    ys_trans,       \* ys_pred after the transform step of predict_with_model
    args,           \* arguments of a directly called function
    ret,            \* value returned by a directly called function
    feature_result, \* the FeatureResult of the feature assembler
    log_file,       \* the content of the log file of an executable runner
    result,         \* Some(the result dictionary), or None when there is none
    feature_dict,   \* the feature_dict the runner gave its FeatureAssembler
    twin,           \* a second runner instance of the same class
    twin_model_file,\* the model artifact at the twin's model file path
    twin_result     \* the twin's result on the same asset, as result

vars == <<op, runner, pc, events, model_file, ys_pred, ys_trans, args, ret,
          feature_result, log_file, result, feature_dict, twin, twin_model_file,
          twin_result>>

-----------------------------------------------------------------------------
(* Bounds of the model *)

\* longest sequence of scores, frames or log lines
MaxLen == 2

\* most lines of a plain-text log, most frames of a structured log
MaxRecords == 3

-----------------------------------------------------------------------------
(* Python values *)

None == <<>>

Some(v) == <<v>>

EmptyDict == [k \in {} |-> None]

\* frozen dictionary d with d[k] = v
DictSet(d, k, v) == [x \in DOMAIN d \cup {k} |-> IF x = k THEN v ELSE d[x]]

Abs(x) == IF x < 0 THEN -x ELSE x

RECURSIVE GCD(_, _)
GCD(a, b) == IF b = 0 THEN a ELSE GCD(b, a % b)

\* the double n/d
Rat(n, d) ==
    LET g == GCD(Abs(n), Abs(d))
        s == IF d < 0 THEN -1 ELSE 1
    IN  <<(s * n) \div g, (s * d) \div g>>

Zero == Rat(0, 1)

RatAdd(a, b) == Rat(a[1] * b[2] + b[1] * a[2], a[2] * b[2])

RatSub(a, b) == Rat(a[1] * b[2] - b[1] * a[2], a[2] * b[2])

RatMul(a, b) == Rat(a[1] * b[1], a[2] * b[2])

RatDiv(a, b) == Rat(a[1] * b[2], a[2] * b[1])

RatLT(a, b) == a[1] * b[2] < b[1] * a[2]

RatLE(a, b) == a[1] * b[2] <= b[1] * a[2]

NpMinimum(a, b) == IF RatLE(a, b) THEN a ELSE b

NpMaximum(a, b) == IF RatLE(a, b) THEN b ELSE a

NpClip(v, lb, ub) == NpMinimum(NpMaximum(v, lb), ub)

-----------------------------------------------------------------------------
(* VmafQualityRunner / VmafPhoneQualityRunner: the general regression path *)

\* mutant: the phone variant does not override _do_transform_score
DoTransformScore_NoOverride(cls, kw) ==
    "enable_transform_score" \in DOMAIN kw /\ kw["enable_transform_score"] = TRUE

DoTransformScore(cls, kw) ==
    IF cls = "VMAF_Phone"
    THEN TRUE
    ELSE "enable_transform_score" \in DOMAIN kw /\ kw["enable_transform_score"] = TRUE

\* mutant: the p2 term is linear in y_in
Quadratic_LinearP2(transform_dict, y_in) ==
    LET y0 == Zero
        y1 == IF "p0" \in DOMAIN transform_dict
              THEN RatAdd(y0, transform_dict["p0"]) ELSE y0
        y2 == IF "p1" \in DOMAIN transform_dict
              THEN RatAdd(y1, RatMul(transform_dict["p1"], y_in)) ELSE y1
        y3 == IF "p2" \in DOMAIN transform_dict
              THEN RatAdd(y2, RatMul(transform_dict["p2"], y_in)) ELSE y2
    IN  y3

\* the quadratic transform of one element
Quadratic(transform_dict, y_in) ==
    LET y0 == Zero
        y1 == IF "p0" \in DOMAIN transform_dict
              THEN RatAdd(y0, transform_dict["p0"]) ELSE y0
        y2 == IF "p1" \in DOMAIN transform_dict
              THEN RatAdd(y1, RatMul(transform_dict["p1"], y_in)) ELSE y1
        y3 == IF "p2" \in DOMAIN transform_dict
              THEN RatAdd(y2, RatMul(RatMul(transform_dict["p2"], y_in), y_in)) ELSE y2
    IN  y3

\* mutant: out_gte_in is looked at only when out_lte_in is not set
Rectify_GteOnlyIfNotLte(transform_dict, y_out, y_in) ==
    IF "out_lte_in" \in DOMAIN transform_dict /\ transform_dict["out_lte_in"] = "true"
    THEN NpMinimum(y_out, y_in)
    ELSE IF "out_gte_in" \in DOMAIN transform_dict
            /\ transform_dict["out_gte_in"] = "true"
         THEN NpMaximum(y_out, y_in)
         ELSE y_out

\* the rectification of one element
Rectify(transform_dict, y_out, y_in) ==
    LET r1 == IF "out_lte_in" \in DOMAIN transform_dict
                 /\ transform_dict["out_lte_in"] = "true"
              THEN NpMinimum(y_out, y_in) ELSE y_out
        r2 == IF "out_gte_in" \in DOMAIN transform_dict
                 /\ transform_dict["out_gte_in"] = "true"
              THEN NpMaximum(r1, y_in) ELSE r1
    IN  r2

transform_score(m, ys) ==
    IF "score_transform" \notin DOMAIN m
    THEN ys
    ELSE LET transform_dict == m["score_transform"]
         IN  [i \in DOMAIN ys |->
                 Rectify(transform_dict, Quadratic(transform_dict, ys[i]), ys[i])]

\* mutant: only the lower bound is applied
clip_score_LowerOnly(m, ys) ==
    IF "score_clip" \in DOMAIN m
    THEN LET lb == m["score_clip"][1]
         IN  [i \in DOMAIN ys |-> NpMaximum(ys[i], lb)]
    ELSE ys

clip_score(m, ys) ==
    IF "score_clip" \in DOMAIN m
    THEN LET lb == m["score_clip"][1]
             ub == m["score_clip"][2]
         IN  [i \in DOMAIN ys |-> NpClip(ys[i], lb, ub)]
    ELSE ys

\* ys_pred after the transform step of predict_with_model
TransformStep(cls, m, ys, kw) ==
    IF DoTransformScore(cls, kw) THEN transform_score(m, ys) ELSE ys

\* ys_pred after the clip step of predict_with_model
ClipStep(m, ys, kw) ==
    IF "disable_clip_score" \in DOMAIN kw /\ kw["disable_clip_score"] = TRUE
    THEN ys
    ELSE clip_score(m, ys)

predict_with_model(cls, m, ys, kw) == ClipStep(m, TransformStep(cls, m, ys, kw), kw)

\* optional_dict lookups of _run_on_asset, with their defaults
OptionOrFalse(od, key) ==
    IF od # None /\ key \in DOMAIN od[1] THEN od[1][key] ELSE FALSE

RunKwargs(od) ==
    "disable_clip_score" :> OptionOrFalse(od, "disable_clip_score")
    @@ "enable_transform_score" :> OptionOrFalse(od, "enable_transform_score")

get_scores_key(cls) == cls \o "_scores"

\* mutant: the option is rejected only when it is True
AssertArgs_ValueOnly(cls, od) ==
    IF cls = "VMAF_Phone" /\ od # None
    THEN ~("enable_transform_score" \in DOMAIN od[1] /\ od[1]["enable_transform_score"] = TRUE)
    ELSE TRUE

\* VmafPhoneQualityRunner._assert_args; the other classes inherit Executor's
AssertArgs(cls, od) ==
    IF cls = "VMAF_Phone" /\ od # None
    THEN "enable_transform_score" \notin DOMAIN od[1]
    ELSE TRUE

-----------------------------------------------------------------------------
(* VmafLegacyQualityRunner: the legacy regression path *)

FEATURE_RESCALE_DICT ==
    "VMAF_feature_vif_scores" :> <<Rat(0, 1), Rat(1, 1)>>
    @@ "VMAF_feature_adm_scores" :> <<Rat(4, 10), Rat(1, 1)>>
    @@ "VMAF_feature_ansnr_scores" :> <<Rat(10, 1), Rat(50, 1)>>
    @@ "VMAF_feature_motion_scores" :> <<Rat(0, 1), Rat(20, 1)>>

SVM_MODEL_ORDERED_SCORES_KEYS ==
    <<"VMAF_feature_vif_scores", "VMAF_feature_adm_scores",
      "VMAF_feature_ansnr_scores", "VMAF_feature_motion_scores">>

\* mutant: the motion value is not capped at 20
_post_correction_NoCap(motion, score) ==
    LET s1 == IF RatLT(Rat(12, 1), motion)
              THEN RatMul(score, RatAdd(RatMul(RatSub(motion, Rat(12, 1)), Rat(15, 1000)),
                                        Rat(1, 1)))
              ELSE score
    IN  IF RatLT(Rat(100, 1), s1) THEN Rat(100, 1)
        ELSE IF RatLT(s1, Zero) THEN Zero
        ELSE s1

_post_correction(motion, score) ==
    LET s1 == IF RatLT(Rat(12, 1), motion)
              THEN LET val == IF RatLT(Rat(20, 1), motion) THEN Rat(20, 1) ELSE motion
                   IN  RatMul(score, RatAdd(RatMul(RatSub(val, Rat(12, 1)), Rat(15, 1000)),
                                            Rat(1, 1)))
              ELSE score
    IN  IF RatLT(Rat(100, 1), s1) THEN Rat(100, 1)
        ELSE IF RatLT(s1, Zero) THEN Zero
        ELSE s1

\* mutant: the lower bound is not subtracted before scaling
_rescale_NoShift(vals, lower_upper_bound) ==
    LET lower_bound == lower_upper_bound[1]
        upper_bound == lower_upper_bound[2]
    IN  [i \in DOMAIN vals |->
            RatDiv(NpClip(vals[i], lower_bound, upper_bound),
                   RatSub(upper_bound, lower_bound))]

_rescale(vals, lower_upper_bound) ==
    LET lower_bound == lower_upper_bound[1]
        upper_bound == lower_upper_bound[2]
    IN  [i \in DOMAIN vals |->
            RatDiv(RatSub(NpClip(vals[i], lower_bound, upper_bound), lower_bound),
                   RatSub(upper_bound, lower_bound))]

\* ordered_scaled_scores_list of _run_on_asset
OrderedScaledScores(fr) ==
    [k \in DOMAIN SVM_MODEL_ORDERED_SCORES_KEYS |->
        _rescale(fr[SVM_MODEL_ORDERED_SCORES_KEYS[k]],
                 FEATURE_RESCALE_DICT[SVM_MODEL_ORDERED_SCORES_KEYS[k]])]

\* the scores of _run_on_asset, given svm_predict's value for each frame
LegacyScores(fr, preds) ==
    LET scaled == OrderedScaledScores(fr)
    IN  [i \in DOMAIN preds |-> _post_correction(scaled[4][i], preds[i])]

-----------------------------------------------------------------------------
(* Reading numbers from text *)

Char(s, i) == SubSeq(s, i, i)

\* c is one of the characters of chars
IsIn(c, chars) == \E i \in 1..Len(chars) : Char(chars, i) = c

Digits == "0123456789"

\* the index of the last character of the longest run of characters of chars
\* that starts at s[i]; i - 1 when s[i] is not one of them
RECURSIVE RunEnd(_, _, _)
RunEnd(s, i, chars) ==
    IF i <= Len(s) /\ IsIn(Char(s, i), chars) THEN RunEnd(s, i + 1, chars) ELSE i - 1

DigitValue(c) == (CHOOSE i \in 1..Len(Digits) : Char(Digits, i) = c) - 1

\* int(text) for a text of decimal digits
RECURSIVE IntOf(_)
IntOf(text) ==
    IF Len(text) = 0 THEN 0
    ELSE IntOf(SubSeq(text, 1, Len(text) - 1)) * 10 + DigitValue(Char(text, Len(text)))

RECURSIVE Pow10(_)
Pow10(n) == IF n = 0 THEN 1 ELSE 10 * Pow10(n - 1)

\* float(text) for decimal notation (sign, digits, at most one point):
\* Some(the number), or None where float raises ValueError.  Exponents,
\* inf, nan and surrounding blanks are not among the texts of the model.
FloatOf(text) ==
    LET neg == Len(text) > 0 /\ Char(text, 1) = "-"
        body == IF neg THEN SubSeq(text, 2, Len(text)) ELSE text
        dots == {i \in 1..Len(body) : Char(body, i) = "."}
        wellFormed == /\ \A i \in 1..Len(body) : IsIn(Char(body, i), Digits \o ".")
                      /\ Cardinality(dots) <= 1
                      /\ Len(body) > Cardinality(dots)
        dot == IF dots = {} THEN Len(body) + 1 ELSE CHOOSE i \in dots : TRUE
        whole == SubSeq(body, 1, dot - 1)
        frac == SubSeq(body, dot + 1, Len(body))
        magnitude == IntOf(whole) * Pow10(Len(frac)) + IntOf(frac)
    IN  IF wellFormed
        THEN Some(Rat(IF neg THEN -magnitude ELSE magnitude, Pow10(Len(frac))))
        ELSE None

-----------------------------------------------------------------------------
(* PsnrQualityRunner: the plain-text log *)

\* re.match(r"psnr: ([0-9]+) ([0-9.-]+)", line): Some(<<group 1, group 2>>),
\* or None when the line does not match
PsnrMatch(line) ==
    LET label == "psnr: "
        b1 == Len(label) + 1
        e1 == RunEnd(line, b1, Digits)
        b2 == e1 + 2
        e2 == RunEnd(line, b2, Digits \o ".-")
    IN  IF /\ Len(line) >= Len(label)
           /\ SubSeq(line, 1, Len(label)) = label
           /\ e1 >= b1
           /\ e1 + 1 <= Len(line)
           /\ Char(line, e1 + 1) = " "
           /\ e2 >= b2
        THEN Some(<<SubSeq(line, b1, e1), SubSeq(line, b2, e2)>>)
        ELSE None

\* mutant: an index may skip ahead
RECURSIVE PsnrLoop_AllowGaps(_, _, _)
PsnrLoop_AllowGaps(lines, counter, psnr_scores) ==
    IF lines = <<>> THEN Some(psnr_scores)
    ELSE LET mo == PsnrMatch(Head(lines))
         IN  IF mo = None
             THEN PsnrLoop_AllowGaps(Tail(lines), counter, psnr_scores)
             ELSE IF IntOf(mo[1][1]) < counter THEN None
             ELSE IF FloatOf(mo[1][2]) = None THEN None
             ELSE PsnrLoop_AllowGaps(Tail(lines), IntOf(mo[1][1]) + 1,
                                     Append(psnr_scores, FloatOf(mo[1][2])[1]))

\* the loop over the lines of the log: Some(psnr_scores), or None when an
\* assertion or float() raises
RECURSIVE PsnrLoop(_, _, _)
PsnrLoop(lines, counter, psnr_scores) ==
    IF lines = <<>> THEN Some(psnr_scores)
    ELSE LET mo == PsnrMatch(Head(lines))
         IN  IF mo = None
             THEN PsnrLoop(Tail(lines), counter, psnr_scores)
             ELSE IF IntOf(mo[1][1]) # counter THEN None
             ELSE IF FloatOf(mo[1][2]) = None THEN None
             ELSE PsnrLoop(Tail(lines), counter + 1,
                           Append(psnr_scores, FloatOf(mo[1][2])[1]))

\* mutant: an empty score list is returned as a result
PsnrGetQualityScores_AllowEmpty(lines) ==
    LET r == PsnrLoop(lines, 0, <<>>)
    IN  IF r = None THEN None
        ELSE Some(get_scores_key("PSNR") :> r[1])

\* PsnrQualityRunner._get_quality_scores: Some(quality_result), or None when
\* it raises
PsnrGetQualityScores(lines) ==
    LET r == PsnrLoop(lines, 0, <<>>)
    IN  IF r = None THEN None
        ELSE IF Len(r[1]) = 0 THEN None
        ELSE Some(get_scores_key("PSNR") :> r[1])

-----------------------------------------------------------------------------
(* VmafossExecQualityRunner: the structured log *)

FEATURES ==
    <<"adm2", "adm_scale0", "adm_scale1", "adm_scale2", "adm_scale3",
      "motion", "vif_scale0", "vif_scale1", "vif_scale2",
      "vif_scale3", "vif", "psnr", "ssim", "ms_ssim", "motion2">>

get_feature_scores_key(cls, atom_feature) == cls \o "_" \o atom_feature \o "_scores"

\* mutant: a missing sub-feature attribute raises
FrameFeatures_Strict(attrib, feature_scores) ==
    IF \A i \in DOMAIN FEATURES :
           FEATURES[i] \in DOMAIN attrib /\ FloatOf(attrib[FEATURES[i]]) # None
    THEN Some([i \in DOMAIN FEATURES |->
                  Append(feature_scores[i], FloatOf(attrib[FEATURES[i]])[1])])
    ELSE None

\* the inner loop over FEATURES for one frame: Some(feature_scores), or None
\* when float() raises; a missing attribute (KeyError) is passed over
FrameFeatures(attrib, feature_scores) ==
    IF \A i \in DOMAIN FEATURES :
           FEATURES[i] \in DOMAIN attrib => FloatOf(attrib[FEATURES[i]]) # None
    THEN Some([i \in DOMAIN FEATURES |->
                  IF FEATURES[i] \in DOMAIN attrib
                  THEN Append(feature_scores[i], FloatOf(attrib[FEATURES[i]])[1])
                  ELSE feature_scores[i]])
    ELSE None

\* the loop over the frames: Some(<<scores, feature_scores>>), or None when
\* frame.attrib['vmaf'] or float() raises
RECURSIVE FrameLoop(_, _, _)
FrameLoop(frames, scores, feature_scores) ==
    IF frames = <<>> THEN Some(<<scores, feature_scores>>)
    ELSE LET attrib == Head(frames)
         IN  IF "vmaf" \notin DOMAIN attrib THEN None
             ELSE IF FloatOf(attrib["vmaf"]) = None THEN None
             ELSE LET fs == FrameFeatures(attrib, feature_scores)
                  IN  IF fs = None THEN None
                      ELSE FrameLoop(Tail(frames),
                                     Append(scores, FloatOf(attrib["vmaf"])[1]), fs[1])

\* the loop that publishes the non-empty sub-feature lists, from FEATURES[i] on
RECURSIVE PublishFeatures(_, _, _)
PublishFeatures(quality_result, feature_scores, i) ==
    IF i > Len(FEATURES) THEN quality_result
    ELSE PublishFeatures(
             IF Len(feature_scores[i]) # 0
             THEN DictSet(quality_result,
                          get_feature_scores_key("VMAFOSSEXEC", FEATURES[i]),
                          feature_scores[i])
             ELSE quality_result,
             feature_scores, i + 1)

\* VmafossExecQualityRunner._get_quality_scores: Some(quality_result), or None
\* when it raises
VmafossexecGetQualityScores(frames) ==
    LET r == FrameLoop(frames, <<>>, [i \in DOMAIN FEATURES |-> <<>>])
    IN  IF r = None THEN None
        ELSE IF Len(r[1][1]) = 0 THEN None
        ELSE Some(PublishFeatures(get_scores_key("VMAFOSSEXEC") :> r[1][1], r[1][2], 1))

-----------------------------------------------------------------------------
(* The raw-feature passthrough runners *)

\* dictionary d without key k
DictDel(d, k) == [x \in DOMAIN d \ {k} |-> d[x]]

\* FeatureExtractor.get_scores_key(atom_feature) of the extractor of a type
ExtractorScoresKey(type, atom_feature) == type \o "_" \o atom_feature \o "_scores"

\* FEATURE_NAME of the subclasses of VmafSingleFeatureQualityRunner, by TYPE
FEATURE_NAME ==
    "ADM2" :> "adm2"
    @@ "VIF_SCALE0" :> "vif_scale0"
    @@ "VIF_SCALE1" :> "vif_scale1"
    @@ "VIF_SCALE2" :> "vif_scale2"
    @@ "VIF_SCALE3" :> "vif_scale3"
    @@ "MOTION" :> "motion"

SingleFeatureClasses == DOMAIN FEATURE_NAME

\* feature_dict of VmafSingleFeatureQualityRunner
SingleFeatureDict(cls) == "VMAF_feature" :> <<FEATURE_NAME[cls]>>

\* result_dict of VmafSingleFeatureQualityRunner._run_on_asset
SingleFeatureResult(cls, fr) ==
    get_scores_key(cls) :> fr[ExtractorScoresKey("VMAF_feature", FEATURE_NAME[cls])]

\* the runners that republish a feature of their own extractor, by TYPE:
\* the feature whose scores become the quality scores
REPUBLISHED_FEATURE ==
    "SSIM" :> "ssim" @@ "MS_SSIM" :> "ms_ssim" @@ "STRRED" :> "strred"

ExtractorClasses == DOMAIN REPUBLISHED_FEATURE

\* SsimFeatureExtractor.TYPE, MsSsimFeatureExtractor.TYPE,
\* StrredFeatureExtractor.TYPE
ExtractorType(cls) == cls \o "_feature"

\* the lists the extractor of a runner may declare: ATOM_FEATURES, for STRRED
\* followed by DERIVED_ATOM_FEATURES
ExtractorAtomFeatures(cls) ==
    IF cls = "SSIM" THEN {<<"ssim">>, <<"ssim", "ssim_l", "ssim_c", "ssim_s">>}
    ELSE IF cls = "MS_SSIM" THEN {<<"ms_ssim">>, <<"ms_ssim", "ms_ssim_l_scale0">>}
    ELSE {<<"strred">>, <<"srred", "trred", "strred">>}

\* feature_dict of _get_feature_assembler_instance
ExtractorFeatureDict(cls, atom_features) == ExtractorType(cls) :> atom_features

\* mutant: the republished sequence is not deleted under the provider's key
ExtractorPassthroughResult_KeepRedundant(cls, fr) ==
    DictSet(fr, get_scores_key(cls),
            fr[ExtractorScoresKey(ExtractorType(cls), REPUBLISHED_FEATURE[cls])])

\* result_dict of the _run_on_asset of SsimQualityRunner, MsSsimQualityRunner
\* and StrredQualityRunner: update, republish, delete
ExtractorPassthroughResult(cls, fr) ==
    DictDel(DictSet(fr, get_scores_key(cls),
                    fr[ExtractorScoresKey(ExtractorType(cls), REPUBLISHED_FEATURE[cls])]),
            ExtractorScoresKey(ExtractorType(cls), REPUBLISHED_FEATURE[cls]))

-----------------------------------------------------------------------------
(* The identity of the runner classes *)

\* VmafFeatureExtractor.VERSION
VmafFeatureExtractor_VERSION == "0.2.4b"

\* StrredFeatureExtractor.VERSION
StrredFeatureExtractor_VERSION == "StrredFeatureExtractor.VERSION"

\* mutant: MsSsimQualityRunner keeps the TYPE of the class it was copied from
TYPE_MsSsimAsSsim ==
    "PsnrQualityRunner" :> "PSNR"
    @@ "VmafLegacyQualityRunner" :> "VMAF_legacy"
    @@ "VmafQualityRunner" :> "VMAF"
    @@ "VmafPhoneQualityRunner" :> "VMAF_Phone"
    @@ "VmafossExecQualityRunner" :> "VMAFOSSEXEC"
    @@ "SsimQualityRunner" :> "SSIM"
    @@ "MsSsimQualityRunner" :> "SSIM"
    @@ "Adm2QualityRunner" :> "ADM2"
    @@ "VifScale0QualityRunner" :> "VIF_SCALE0"
    @@ "VifScale1QualityRunner" :> "VIF_SCALE1"
    @@ "VifScale2QualityRunner" :> "VIF_SCALE2"
    @@ "VifScale3QualityRunner" :> "VIF_SCALE3"
    @@ "MotionQualityRunner" :> "MOTION"
    @@ "StrredQualityRunner" :> "STRRED"

\* TYPE of the concrete runner classes
TYPE ==
    "PsnrQualityRunner" :> "PSNR"
    @@ "VmafLegacyQualityRunner" :> "VMAF_legacy"
    @@ "VmafQualityRunner" :> "VMAF"
    @@ "VmafPhoneQualityRunner" :> "VMAF_Phone"
    @@ "VmafossExecQualityRunner" :> "VMAFOSSEXEC"
    @@ "SsimQualityRunner" :> "SSIM"
    @@ "MsSsimQualityRunner" :> "MS_SSIM"
    @@ "Adm2QualityRunner" :> "ADM2"
    @@ "VifScale0QualityRunner" :> "VIF_SCALE0"
    @@ "VifScale1QualityRunner" :> "VIF_SCALE1"
    @@ "VifScale2QualityRunner" :> "VIF_SCALE2"
    @@ "VifScale3QualityRunner" :> "VIF_SCALE3"
    @@ "MotionQualityRunner" :> "MOTION"
    @@ "StrredQualityRunner" :> "STRRED"

\* VERSION of VmafSingleFeatureQualityRunner, inherited by its subclasses
SingleFeatureVersion == "F" \o VmafFeatureExtractor_VERSION \o "-0"

\* VERSION of the concrete runner classes
VERSION ==
    "PsnrQualityRunner" :> "1.0"
    @@ "VmafLegacyQualityRunner" :> ("F" \o VmafFeatureExtractor_VERSION \o "-1.1")
    @@ "VmafQualityRunner" :> ("F" \o VmafFeatureExtractor_VERSION \o "-0.6.1")
    @@ "VmafPhoneQualityRunner" :>
           ("F" \o VmafFeatureExtractor_VERSION \o "-0.6.1" \o "-phone")
    @@ "VmafossExecQualityRunner" :> ("F" \o VmafFeatureExtractor_VERSION \o "-0.6.1")
    @@ "SsimQualityRunner" :> "1.0"
    @@ "MsSsimQualityRunner" :> "1.0"
    @@ "Adm2QualityRunner" :> SingleFeatureVersion
    @@ "VifScale0QualityRunner" :> SingleFeatureVersion
    @@ "VifScale1QualityRunner" :> SingleFeatureVersion
    @@ "VifScale2QualityRunner" :> SingleFeatureVersion
    @@ "VifScale3QualityRunner" :> SingleFeatureVersion
    @@ "MotionQualityRunner" :> SingleFeatureVersion
    @@ "StrredQualityRunner" :> ("F" \o StrredFeatureExtractor_VERSION \o "-1.1")

get_score_key(cls) == cls \o "_score"

-----------------------------------------------------------------------------
(* Inputs *)

\* all sequences over S of length lo..hi
SeqsOf(S, lo, hi) == UNION {[1..n -> S] : n \in lo..hi}

\* all dictionaries with keys among K, each key k present with a value of V[k]
DictsOver(K, V) == UNION {{d \in [D -> UNION {V[k] : k \in D}] :
                              \A k \in D : d[k] \in V[k]} : D \in SUBSET K}

PredValues == {Rat(-5, 1), Rat(2, 1), Rat(150, 1)}

\* dictionary holding the entries of a and of b
Merge(a, b) == [k \in DOMAIN a \cup DOMAIN b |-> IF k \in DOMAIN a THEN a[k] ELSE b[k]]

CoefKeys == {"p0", "p1", "p2"}

CoefDicts == DictsOver(CoefKeys, [p0 |-> {Rat(1, 1)}, p1 |-> {Rat(1, 1)}, p2 |-> {Rat(1, 2)}])

FlagKeys == {"out_lte_in", "out_gte_in"}

FlagDicts == DictsOver(FlagKeys, [k \in FlagKeys |-> {"true", "false"}])

TransformDicts == {Merge(c, f) : c \in CoefDicts, f \in FlagDicts}

ClipBounds == {<<Rat(0, 1), Rat(100, 1)>>, <<Rat(1, 1), Rat(50, 1)>>}

\* the appended info of a loaded TrainTestModel
Models ==
    {EmptyDict}
    \cup {[score_transform |-> t] : t \in TransformDicts}
    \cup {[score_clip |-> c] : c \in ClipBounds}
    \cup {"score_clip" :> c @@ "score_transform" :> t : t \in TransformDicts, c \in ClipBounds}

OptionKeys == {"disable_clip_score", "enable_transform_score"}

OptionDicts == DictsOver(OptionKeys, [k \in OptionKeys |-> BOOLEAN])

OptionalDicts == {None} \cup {Some(d) : d \in OptionDicts}

GeneralClasses == {"VMAF", "VMAF_Phone"}

ExecClasses == {"PSNR", "VMAFOSSEXEC"}

RunnerClasses ==
    GeneralClasses \cup {"VMAF_legacy"} \cup ExecClasses
    \cup SingleFeatureClasses \cup ExtractorClasses

\* the configurations tried for a class; only the general path reads the
\* options modelled here
OptionalDictsFor(cls) ==
    IF cls \in GeneralClasses THEN OptionalDicts ELSE {None, Some(EmptyDict)}

\* lines an executable may leave in the plain-text log
LogLines ==
    {"psnr: 0 30.1", "psnr: 1 31.4", "psnr: 2 -5", "psnr: 1 31.4 dB",
     "psnr: 1 3.1.4", "ssim: 0 0.9"}

\* attributes of a frame element of the structured log
FrameAttribs ==
    {Merge("frameNum" :> "0", d) :
        d \in DictsOver({"vmaf", "adm2", "motion"},
                        "vmaf" :> {"80.5", "n/a"} @@ "adm2" :> {"0.9"}
                        @@ "motion" :> {"3.5"})}

\* values of svm_predict
LegacyPredValues == {Rat(-10, 1), Rat(50, 1), Rat(95, 1)}

\* per-frame values of the motion feature
MotionValues == {Rat(5, 1), Rat(12, 1), Rat(17, 1), Rat(25, 1)}

\* the VMAF_feature result of an asset with the given per-frame motion
LegacyFeatureResult(motions) ==
    "VMAF_feature_vif_scores" :> [i \in DOMAIN motions |-> Rat(1, 2)]
    @@ "VMAF_feature_adm_scores" :> [i \in DOMAIN motions |-> Rat(7, 10)]
    @@ "VMAF_feature_ansnr_scores" :> [i \in DOMAIN motions |-> Rat(30, 1)]
    @@ "VMAF_feature_motion_scores" :> motions

\* per-frame values of a raw feature
FeatureValues == {Rat(1, 2), Rat(9, 10)}

\* the results the Feature Provider may return for the features asked of one
\* extractor: one sequence per feature, all of the frame count n
ProviderResults(type, atom_features, n) ==
    {[k \in {ExtractorScoresKey(type, atom_features[i]) : i \in DOMAIN atom_features}
         |-> f[CHOOSE i \in DOMAIN atom_features :
                   ExtractorScoresKey(type, atom_features[i]) = k]] :
        f \in [DOMAIN atom_features -> [1..n -> FeatureValues]]}

\* arguments of the direct calls of _post_correction
CorrectionMotions == MotionValues \cup {Rat(0, 1), Rat(17, 20), Rat(10, 1), Rat(20, 1)}

CorrectionScores == LegacyPredValues \cup {Rat(0, 1), Rat(100, 1), Rat(120, 1)}

\* arguments of the direct calls of _rescale
RescaleBounds == {FEATURE_RESCALE_DICT[k] : k \in DOMAIN FEATURE_RESCALE_DICT}

RescaleValues ==
    {Rat(-1, 1), Rat(0, 1), Rat(4, 10), Rat(7, 10), Rat(1, 1), Rat(10, 1),
     Rat(17, 1), Rat(20, 1), Rat(50, 1), Rat(60, 1)}

-----------------------------------------------------------------------------
(* Actions *)

NewRunner(cls, od) == "cls" :> cls @@ "optional_dict" :> od

NoRunner == NewRunner("none", None)

Init ==
    /\ op = "init"
    /\ runner = NoRunner
    /\ pc = "idle"
    /\ events = <<>>
    /\ model_file = None
    /\ ys_pred = <<>>
    /\ ys_trans = <<>>
    /\ args = <<>>
    /\ ret = <<>>
    /\ feature_result = EmptyDict
    /\ log_file = <<>>
    /\ result = None
    /\ feature_dict = EmptyDict
    /\ twin = NoRunner
    /\ twin_model_file = None
    /\ twin_result = None

\* a direct call of a function: no runner instance is involved
DirectCall(name, a, r) ==
    /\ op' = name
    /\ args' = a
    /\ ret' = r
    /\ runner' = NoRunner
    /\ pc' = "idle"
    /\ events' = <<>>
    /\ model_file' = None
    /\ ys_pred' = <<>>
    /\ feature_result' = EmptyDict
    /\ log_file' = <<>>
    /\ result' = None
    /\ feature_dict' = EmptyDict
    /\ UNCHANGED <<twin, twin_model_file, twin_result>>

CallTransformScore ==
    /\ op = "init"
    /\ \E m \in Models, ys \in SeqsOf(PredValues, 0, MaxLen) :
        DirectCall("transform_score", "model" :> m @@ "ys_pred" :> ys,
                   transform_score(m, ys))
    /\ ys_trans' = <<>>

CallPredictWithModel ==
    /\ op = "init"
    /\ \E cls \in GeneralClasses, m \in Models, ys \in SeqsOf(PredValues, 0, MaxLen),
          kw \in OptionDicts :
           /\ DirectCall("predict_with_model",
                   "cls" :> cls @@ "kwargs" :> kw @@ "model" :> m @@ "ys_pred" :> ys,
                   predict_with_model(cls, m, ys, kw))
           /\ ys_trans' = TransformStep(cls, m, ys, kw)

\* the model artifact on disk: None when the file is missing or unreadable
ModelFiles == {None} \cup {Some(m) : m \in Models}

\* the artifact at SVM_MODEL_FILE; the legacy path reads no appended info
SvmModelFiles == {None, Some(EmptyDict)}

\* the artifacts that may lie at the model file path of a runner of a class
ModelFilesFor(cls) ==
    IF cls \in GeneralClasses THEN ModelFiles
    ELSE IF cls = "VMAF_legacy" THEN SvmModelFiles
    ELSE {None}

\* Executor.__init__: keep the options, then validate them
Construct ==
    /\ op = "init"
    /\ \E cls \in RunnerClasses :
       \E od \in OptionalDictsFor(cls), mf \in ModelFilesFor(cls) :
        /\ op' = "construct"
        /\ runner' = NewRunner(cls, od)
        /\ pc' = IF AssertArgs(cls, od) THEN "constructed" ELSE "rejected"
        /\ events' = <<>>
        /\ model_file' = mf
        /\ ys_pred' = <<>>
        /\ ys_trans' = <<>>
        /\ args' = <<>>
        /\ ret' = <<>>
        /\ feature_result' = EmptyDict
        /\ log_file' = <<>>
        /\ result' = None
        /\ feature_dict' = EmptyDict
        /\ UNCHANGED <<twin, twin_model_file, twin_result>>

\* the feature assembler's result for an asset of n frames
GeneralFeatureResult(n) == [VMAF_feature_adm_scores |-> [i \in 1..n |-> Rat(1, 2)]]

DEFAULT_FEATURE_DICT == "VMAF_feature" :> <<"vif", "adm", "motion", "ansnr">>

\* feature_dict of _get_vmaf_feature_assembler_instance, given the appended
\* info of the loaded model
GeneralFeatureDict(m) ==
    IF "feature_dict" \in DOMAIN m THEN m["feature_dict"] ELSE DEFAULT_FEATURE_DICT

\* mutant: the model loaded for its feature_dict is kept for the prediction
GeneralRunEvents_LoadOnce(mf) ==
    IF mf = None
    THEN <<"load_model">>
    ELSE <<"load_model", "feature_assembler.run", "predict">>

\* the calls of _run_on_asset to its collaborators, in order;
\* TrainTestModel.from_file raises when there is no readable artifact
GeneralRunEvents(mf) ==
    IF mf = None
    THEN <<"load_model">>
    ELSE <<"load_model", "feature_assembler.run", "load_model", "predict">>

DEFAULT_MODEL_FILEPATH == "vmaf_v0.6.1.pkl"

\* model_filepath of _load_model; the option holds None or Some(a path)
ModelFilepath(od) ==
    IF od # None /\ "model_filepath" \in DOMAIN od[1] /\ od[1]["model_filepath"] # None
    THEN od[1]["model_filepath"][1]
    ELSE DEFAULT_MODEL_FILEPATH

\* result_dict of _run_on_asset
GeneralResult(cls, od, m, fr, ys) ==
    DictSet(fr, get_scores_key(cls), predict_with_model(cls, m, ys, RunKwargs(od)))

\* VmafQualityRunner._run_on_asset, inherited by VmafPhoneQualityRunner
RunOnAsset ==
    /\ pc = "constructed"
    /\ runner.cls \in GeneralClasses
    /\ op' = "_run_on_asset"
    /\ events' = GeneralRunEvents(model_file)
    /\ UNCHANGED <<runner, model_file, args, ret, log_file, twin, twin_model_file, twin_result>>
    /\ IF model_file = None
       THEN /\ pc' = "failed"
            /\ feature_dict' = EmptyDict
            /\ feature_result' = EmptyDict
            /\ ys_pred' = <<>>
            /\ ys_trans' = <<>>
            /\ result' = None
       ELSE \E n \in 1..MaxLen :
            \E ys \in [1..n -> PredValues] :
                LET kw == RunKwargs(runner.optional_dict)
                    fr == GeneralFeatureResult(n)
                IN  /\ pc' = "done"
                    /\ feature_dict' = GeneralFeatureDict(model_file[1])
                    /\ feature_result' = fr
                    /\ ys_pred' = ys
                    /\ ys_trans' = TransformStep(runner.cls, model_file[1], ys, kw)
                    /\ result' = Some(GeneralResult(runner.cls, runner.optional_dict,
                                                    model_file[1], fr, ys))

CallPostCorrection ==
    /\ op = "init"
    /\ \E motion \in CorrectionMotions, score \in CorrectionScores :
           DirectCall("_post_correction", "motion" :> motion @@ "score" :> score,
                      _post_correction(motion, score))
    /\ ys_trans' = <<>>

CallRescale ==
    /\ op = "init"
    /\ \E vals \in SeqsOf(RescaleValues, 0, MaxLen), b \in RescaleBounds :
           DirectCall("_rescale", "lower_upper_bound" :> b @@ "vals" :> vals,
                      _rescale(vals, b))
    /\ ys_trans' = <<>>

FEATURE_ASSEMBLER_DICT == "VMAF_feature" :> "all"

\* svmutil.svm_load_model fails on the artifact at SVM_MODEL_FILE
SvmLoadFails(mf) == mf = None

\* mutant: the predictions are attempted whatever the load gave
LegacyRunEvents_PredictUnloaded(mf, n) ==
    <<"feature_assembler.run", "load_model">> \o [i \in 1..n |-> "predict"]

\* the calls of _run_on_asset to its collaborators, in order, on n frames
LegacyRunEvents(mf, n) ==
    <<"feature_assembler.run", "load_model">>
    \o (IF SvmLoadFails(mf) THEN <<>> ELSE [i \in 1..n |-> "predict"])

\* VmafLegacyQualityRunner._run_on_asset
LegacyRunOnAsset ==
    /\ pc = "constructed"
    /\ runner.cls = "VMAF_legacy"
    /\ \E n \in 1..MaxLen :
        \E motions \in [1..n -> MotionValues] :
            LET fr == LegacyFeatureResult(motions)
            IN  /\ op' = "_run_on_asset"
                /\ events' = LegacyRunEvents(model_file, n)
                /\ feature_dict' = FEATURE_ASSEMBLER_DICT
                /\ feature_result' = fr
                /\ ys_trans' = <<>>
                /\ UNCHANGED <<runner, model_file, args, ret, log_file, twin, twin_model_file, twin_result>>
                /\ IF SvmLoadFails(model_file)
                   THEN /\ pc' = "failed"
                        /\ ys_pred' = <<>>
                        /\ result' = None
                   ELSE \E preds \in [1..n -> LegacyPredValues] :
                        /\ pc' = "done"
                        /\ ys_pred' = preds
                        /\ result' = Some(DictSet(fr, get_scores_key(runner.cls),
                                                  LegacyScores(fr, preds)))

\* VmafSingleFeatureQualityRunner._run_on_asset, inherited by its subclasses
SingleFeatureRunOnAsset ==
    /\ pc = "constructed"
    /\ runner.cls \in SingleFeatureClasses
    /\ \E n \in 1..MaxLen :
        \E fr \in ProviderResults("VMAF_feature", SingleFeatureDict(runner.cls)["VMAF_feature"], n) :
            /\ op' = "_run_on_asset"
            /\ pc' = "done"
            /\ events' = <<"feature_assembler.run">>
            /\ feature_dict' = SingleFeatureDict(runner.cls)
            /\ feature_result' = fr
            /\ result' = Some(SingleFeatureResult(runner.cls, fr))
            /\ UNCHANGED <<runner, model_file, ys_pred, ys_trans, args, ret, log_file,
                           twin, twin_model_file, twin_result>>

\* the _run_on_asset of a runner that republishes a feature of its extractor
ExtractorPassthroughRunOnAsset(cls) ==
    /\ pc = "constructed"
    /\ runner.cls = cls
    /\ \E atom_features \in ExtractorAtomFeatures(cls), n \in 1..MaxLen :
        \E fr \in ProviderResults(ExtractorType(cls), atom_features, n) :
            /\ op' = "_run_on_asset"
            /\ pc' = "done"
            /\ events' = <<"feature_assembler.run">>
            /\ feature_dict' = ExtractorFeatureDict(cls, atom_features)
            /\ feature_result' = fr
            /\ result' = Some(ExtractorPassthroughResult(cls, fr))
            /\ UNCHANGED <<runner, model_file, ys_pred, ys_trans, args, ret, log_file,
                           twin, twin_model_file, twin_result>>

SsimRunOnAsset ==
    /\ runner.cls = "SSIM"
    /\ ExtractorPassthroughRunOnAsset("SSIM")

MsSsimRunOnAsset ==
    /\ runner.cls = "MS_SSIM"
    /\ ExtractorPassthroughRunOnAsset("MS_SSIM")

StrredRunOnAsset ==
    /\ runner.cls = "STRRED"
    /\ ExtractorPassthroughRunOnAsset("STRRED")

\* Executor._run_on_asset of a runner that calls an executable:
\* _generate_result writes the log, _read_result parses it
ExecRunOnAsset(cls, external_call, log, quality_result) ==
    /\ pc = "constructed"
    /\ runner.cls = cls
    /\ op' = "_run_on_asset"
    /\ events' = <<external_call>>
    /\ log_file' = log
    /\ pc' = IF quality_result = None THEN "failed" ELSE "done"
    /\ result' = quality_result
    /\ UNCHANGED <<runner, model_file, ys_pred, ys_trans, args, ret, feature_result,
                   feature_dict, twin, twin_model_file, twin_result>>

PsnrRunOnAsset ==
    /\ pc = "constructed"
    /\ runner.cls = "PSNR"
    /\ \E lines \in SeqsOf(LogLines, 0, MaxRecords) :
           ExecRunOnAsset("PSNR", "call_psnr", lines, PsnrGetQualityScores(lines))

VmafossexecRunOnAsset ==
    /\ pc = "constructed"
    /\ runner.cls = "VMAFOSSEXEC"
    /\ \E frames \in SeqsOf(FrameAttribs, 0, MaxRecords) :
           ExecRunOnAsset("VMAFOSSEXEC", "call_vmafossexec", frames,
                          VmafossexecGetQualityScores(frames))

Next ==
    \/ CallTransformScore
    \/ CallPredictWithModel
    \/ CallPostCorrection
    \/ CallRescale
    \/ Construct
    \/ RunOnAsset
    \/ LegacyRunOnAsset
    \/ PsnrRunOnAsset
    \/ VmafossexecRunOnAsset
    \/ SingleFeatureRunOnAsset
    \/ SsimRunOnAsset
    \/ MsSsimRunOnAsset
    \/ StrredRunOnAsset

Spec == Init /\ [][Next]_vars

-----------------------------------------------------------------------------
(* Two runner instances of one class on the same asset *)

\* the model_filepath option: absent, None, or a path of the caller's own
PathDicts ==
    {EmptyDict, "model_filepath" :> None, "model_filepath" :> Some("other.pkl")}

\* the configurations of the two instances
TwinOptionalDicts == {None} \cup {Some(Merge(o, q)) : o \in OptionDicts, q \in PathDicts}

\* the appended info of the artifacts at the two paths
TwinModels ==
    {EmptyDict,
     "score_clip" :> <<Rat(0, 1), Rat(100, 1)>>
     @@ "score_transform" :> ("p0" :> Rat(1, 1) @@ "p1" :> Rat(1, 1))}

\* Executor.__init__, twice: two instances of one class, each with its own
\* options; the files at their model file paths are one file when the
\* paths are the same
TwinConstruct ==
    /\ op = "init"
    /\ \E cls \in GeneralClasses :
       \E od1 \in TwinOptionalDicts, od2 \in TwinOptionalDicts :
       \E m1 \in TwinModels :
       \E m2 \in IF ModelFilepath(od1) = ModelFilepath(od2) THEN {m1} ELSE TwinModels :
        /\ op' = "construct"
        /\ runner' = NewRunner(cls, od1)
        /\ twin' = NewRunner(cls, od2)
        /\ pc' = IF AssertArgs(cls, od1) /\ AssertArgs(cls, od2)
                 THEN "constructed" ELSE "rejected"
        /\ model_file' = Some(m1)
        /\ twin_model_file' = Some(m2)
        /\ events' = <<>>
        /\ ys_pred' = <<>>
        /\ ys_trans' = <<>>
        /\ args' = <<>>
        /\ ret' = <<>>
        /\ feature_result' = EmptyDict
        /\ log_file' = <<>>
        /\ result' = None
        /\ feature_dict' = EmptyDict
        /\ twin_result' = None

\* VmafQualityRunner._run_on_asset of the second instance, on the asset the
\* first was run on: the Feature Provider returns the same FeatureResult,
\* and predict the same values when the model file is the same
TwinRunOnAsset ==
    /\ pc = "done"
    /\ op = "_run_on_asset"
    /\ twin # NoRunner
    /\ \E ys \in IF ModelFilepath(twin.optional_dict) = ModelFilepath(runner.optional_dict)
                  THEN {ys_pred} ELSE [DOMAIN ys_pred -> PredValues] :
        /\ op' = "twin_run_on_asset"
        /\ events' = events \o GeneralRunEvents(twin_model_file)
        /\ twin_result' = Some(GeneralResult(twin.cls, twin.optional_dict,
                                             twin_model_file[1], feature_result, ys))
        /\ UNCHANGED <<runner, pc, model_file, ys_pred, ys_trans, args, ret,
                       feature_result, log_file, result, feature_dict, twin,
                       twin_model_file>>

TwinNext ==
    \/ TwinConstruct
    \/ RunOnAsset
    \/ TwinRunOnAsset

TwinSpec == Init /\ [][TwinNext]_vars

-----------------------------------------------------------------------------
(* Properties of the general regression path *)

InRange(v, lb, ub) == RatLE(lb, v) /\ RatLE(v, ub)

ClipDisabled(kw) == "disable_clip_score" \in DOMAIN kw /\ kw["disable_clip_score"] = TRUE

\* C1: predict_with_model returns a sequence (never an error) as long as the
\* prediction; when the model declares clip bounds and disable_clip_score is
\* not True every returned element lies in [lower, upper], whether or not
\* the transform was applied; otherwise the scores are returned as the
\* transform step left them.
C1_ClipIsLastStep ==
    op = "predict_with_model" =>
        LET m == args.model
            kw == args.kwargs
        IN  /\ DOMAIN ret = DOMAIN args.ys_pred
            /\ ("score_clip" \in DOMAIN m /\ ~ClipDisabled(kw)) =>
                   \A i \in DOMAIN ret :
                       InRange(ret[i], m["score_clip"][1], m["score_clip"][2])
            /\ ("score_clip" \notin DOMAIN m \/ ClipDisabled(kw)) => ret = ys_trans

\* a call that clips transformed scores lying on both sides of the bounds
C1_Witness ==
    /\ op = "predict_with_model"
    /\ "score_clip" \in DOMAIN args.model
    /\ ~ClipDisabled(args.kwargs)
    /\ ys_trans # args.ys_pred
    /\ \E i, j \in DOMAIN ys_trans :
           /\ RatLT(ys_trans[i], args.model["score_clip"][1])
           /\ RatLT(args.model["score_clip"][2], ys_trans[j])
           /\ ret[i] = args.model["score_clip"][1]
           /\ ret[j] = args.model["score_clip"][2]

\* coefficient k of a transform specification, 0 when missing
Coef(td, k) == IF k \in DOMAIN td THEN td[k] ELSE Zero

FlagSet(td, k) == k \in DOMAIN td /\ td[k] = "true"

\* p0 + p1*y + p2*y^2
PolyValue(td, y) ==
    RatAdd(Coef(td, "p0"),
           RatAdd(RatMul(Coef(td, "p1"), y), RatMul(Coef(td, "p2"), RatMul(y, y))))

\* the polynomial value rectified: lte first, gte second
Rectified(td, y) ==
    LET p == PolyValue(td, y)
        lo == IF FlagSet(td, "out_lte_in") /\ RatLT(y, p) THEN y ELSE p
    IN  IF FlagSet(td, "out_gte_in") /\ RatLT(lo, y) THEN y ELSE lo

\* C2: for a model with a transform specification, transform_score returns
\* for every element the polynomial p0 + p1*y + p2*y^2 (missing coefficients
\* 0) rectified; with out_lte_in set no output exceeds its input and with
\* out_gte_in set no output is below its input.
C2_TransformScore ==
    (op = "transform_score" /\ "score_transform" \in DOMAIN args.model) =>
        LET td == args.model["score_transform"]
            ys == args.ys_pred
        IN  /\ DOMAIN ret = DOMAIN ys
            /\ \A i \in DOMAIN ys :
                   /\ ret[i] = Rectified(td, ys[i])
                   /\ FlagSet(td, "out_lte_in") => RatLE(ret[i], ys[i])
                   /\ FlagSet(td, "out_gte_in") => RatLE(ys[i], ret[i])
                   /\ (~FlagSet(td, "out_lte_in") /\ ~FlagSet(td, "out_gte_in")) =>
                          ret[i] = PolyValue(td, ys[i])

\* p0 = 1, p1 = 1, p2 = 0.5 and y_in = 2 give 5, clamped to 2 by out_lte_in
C2_Witness ==
    /\ op = "transform_score"
    /\ "score_transform" \in DOMAIN args.model
    /\ LET td == args.model["score_transform"]
       IN  /\ {"p0", "p1", "p2", "out_lte_in"} = DOMAIN td
           /\ td["out_lte_in"] = "true"
           /\ \E i \in DOMAIN ret :
                  /\ args.ys_pred[i] = Rat(2, 1)
                  /\ PolyValue(td, args.ys_pred[i]) = Rat(5, 1)
                  /\ ret[i] = Rat(2, 1)

\* the configuration enables the transform
TransformEnabled(od) ==
    /\ od # None
    /\ "enable_transform_score" \in DOMAIN od[1]
    /\ od[1]["enable_transform_score"] = TRUE

\* C3: in a completed run the transform is applied by VmafQualityRunner only
\* when enable_transform_score is on and the model declares a transform, by
\* VmafPhoneQualityRunner whenever the model declares one; otherwise the
\* predictions reach the clip step unchanged and the run does not fail.
C3_TransformApplied ==
    (op = "_run_on_asset" /\ runner.cls \in {"VMAF", "VMAF_Phone"}
         /\ model_file # None) =>
        LET m == model_file[1]
            applies == /\ "score_transform" \in DOMAIN m
                       /\ \/ runner.cls = "VMAF_Phone"
                          \/ TransformEnabled(runner.optional_dict)
        IN  /\ pc = "done"
            /\ result # None
            /\ applies =>
                   /\ DOMAIN ys_trans = DOMAIN ys_pred
                   /\ \A i \in DOMAIN ys_pred :
                          ys_trans[i] = Rectified(m["score_transform"], ys_pred[i])
            /\ ~applies => ys_trans = ys_pred

\* a phone run with no configuration whose scores the transform changed
C3_Witness ==
    /\ op = "_run_on_asset"
    /\ pc = "done"
    /\ runner.cls = "VMAF_Phone"
    /\ runner.optional_dict = None
    /\ ys_trans # ys_pred

SuppliesTransformOption(od) == od # None /\ "enable_transform_score" \in DOMAIN od[1]

\* C4: a VmafPhoneQualityRunner given the enable_transform_score option, with
\* any value, is rejected at validation: it never extracts features, loads a
\* model, predicts or produces a result; without the option it is accepted.
C4_PhoneRejectsTransformOption ==
    runner.cls = "VMAF_Phone" =>
        IF SuppliesTransformOption(runner.optional_dict)
        THEN pc = "rejected" /\ events = <<>> /\ result = None /\ op = "construct"
        ELSE pc # "rejected"

\* the option is rejected even when it asks for what the variant does anyway
C4_Witness ==
    /\ runner.cls = "VMAF_Phone"
    /\ pc = "rejected"
    /\ runner.optional_dict # None
    /\ "enable_transform_score" \in DOMAIN runner.optional_dict[1]
    /\ runner.optional_dict[1]["enable_transform_score"] = FALSE

-----------------------------------------------------------------------------
(* Properties of the legacy regression path *)

Hundred == Rat(100, 1)

ClipTo0_100(v) == IF RatLT(Hundred, v) THEN Hundred ELSE IF RatLT(v, Zero) THEN Zero ELSE v

\* the correction factor f(motion) of the legacy rule
CorrectionFactor(motion) ==
    IF RatLE(motion, Rat(12, 1)) THEN Rat(1, 1)
    ELSE IF RatLE(motion, Rat(20, 1))
         THEN RatAdd(Rat(1, 1), RatMul(RatSub(motion, Rat(12, 1)), Rat(15, 1000)))
         ELSE Rat(112, 100)

LegacyRunDone == op = "_run_on_asset" /\ runner.cls = "VMAF_legacy" /\ pc = "done"

\* C5: in a legacy run every frame's score is the prediction multiplied by
\* the correction factor of the frame's motion value in the FeatureResult
\* (1 + (min(motion, 20) - 12) * 0.015 above 12.0, else 1), clipped to
\* [0, 100].
C5_LegacyCorrectionByMotion ==
    LegacyRunDone =>
        LET motions == feature_result["VMAF_feature_motion_scores"]
            scores == result[1][get_scores_key("VMAF_legacy")]
        IN  \A i \in DOMAIN scores :
                scores[i] = ClipTo0_100(RatMul(ys_pred[i], CorrectionFactor(motions[i])))

\* C6: _post_correction(motion, score) = clip(score * f(motion), 0, 100)
\* with f = 1 up to 12.0, 1 + (motion - 12) * 0.015 up to 20.0 and 1.12
\* beyond; the value is always within [0, 100].
C6_PostCorrection ==
    op = "_post_correction" =>
        /\ ret = ClipTo0_100(RatMul(args.score, CorrectionFactor(args.motion)))
        /\ InRange(ret, Zero, Hundred)

\* motion 17 gives factor 1.075: 50 becomes 53.75
C6_Witness ==
    /\ op = "_post_correction"
    /\ args.motion = Rat(17, 1)
    /\ args.score = Rat(50, 1)
    /\ ret = Rat(5375, 100)

\* C7: _rescale with lower < upper maps v to
\* (clip(v, lower, upper) - lower) / (upper - lower): outputs lie in [0, 1],
\* are non-decreasing in v, are 0 for v <= lower and 1 for v >= upper, and
\* keep the length and order of the input.
C7_Rescale ==
    op = "_rescale" =>
        LET lower == args.lower_upper_bound[1]
            upper == args.lower_upper_bound[2]
            vals == args.vals
            clipped(v) == IF RatLT(v, lower) THEN lower ELSE IF RatLT(upper, v) THEN upper ELSE v
        IN  /\ RatLT(lower, upper)
            /\ DOMAIN ret = DOMAIN vals
            /\ \A i \in DOMAIN vals :
                   /\ InRange(ret[i], Zero, Rat(1, 1))
                   /\ RatAdd(RatMul(ret[i], RatSub(upper, lower)), lower) = clipped(vals[i])
                   /\ RatLE(vals[i], lower) => ret[i] = Zero
                   /\ RatLE(upper, vals[i]) => ret[i] = Rat(1, 1)
            /\ \A i, j \in DOMAIN vals : RatLE(vals[i], vals[j]) => RatLE(ret[i], ret[j])

\* bounds (10, 50): a value below the range and one inside it, in order
C7_Witness ==
    /\ op = "_rescale"
    /\ args.lower_upper_bound = <<Rat(10, 1), Rat(50, 1)>>
    /\ args.vals = <<Rat(0, 1), Rat(20, 1)>>
    /\ ret = <<Rat(0, 1), Rat(1, 4)>>

-----------------------------------------------------------------------------
(* Properties of the log parsers *)

ExecRunOf(cls) == op = "_run_on_asset" /\ runner.cls = cls

NoResult == pc = "failed" /\ result = None

\* the frames of the structured log that carry attribute a
FramesWith(a) == {i \in DOMAIN log_file : a \in DOMAIN log_file[i]}

\* every attribute the parser reads from the frames is a number
FrameValuesNumeric ==
    \A i \in DOMAIN log_file :
        \A a \in DOMAIN log_file[i] :
            (a = "vmaf" \/ \E k \in DOMAIN FEATURES : FEATURES[k] = a) =>
                FloatOf(log_file[i][a]) # None

\* C8: structured log: a frame without the final-score attribute fails the
\* extraction with no result, a frame without a declared sub-feature never
\* does; on n frames the final scores have length n, a sub-feature carried
\* by k >= 1 frames is published with length k under
\* '{type}_{feature}_scores', one carried by no frame has no key.
C8_StructuredLog ==
    ExecRunOf("VMAFOSSEXEC") =>
        /\ FramesWith("vmaf") # DOMAIN log_file => NoResult
        /\ (FramesWith("vmaf") = DOMAIN log_file /\ Len(log_file) > 0
               /\ FrameValuesNumeric) =>
               /\ pc = "done"
               /\ result # None
               /\ Len(result[1]["VMAFOSSEXEC_scores"]) = Len(log_file)
               /\ \A k \in DOMAIN FEATURES :
                      LET key == "VMAFOSSEXEC_" \o FEATURES[k] \o "_scores"
                          carriers == FramesWith(FEATURES[k])
                      IN  IF carriers = {}
                          THEN key \notin DOMAIN result[1]
                          ELSE /\ key \in DOMAIN result[1]
                               /\ Len(result[1][key]) = Cardinality(carriers)

\* three frames, the second without adm2: two adm2 scores, three final scores
C8_Witness ==
    /\ ExecRunOf("VMAFOSSEXEC")
    /\ Len(log_file) = 3
    /\ FramesWith("adm2") = {1, 3}
    /\ result # None
    /\ Len(result[1]["VMAFOSSEXEC_adm2_scores"]) = 2
    /\ Len(result[1]["VMAFOSSEXEC_scores"]) = 3

\* the score records of the plain-text log: <<index text, value text>> of
\* the lines that match, in file order
RECURSIVE RecordsOf(_)
RecordsOf(lines) ==
    IF lines = <<>> THEN <<>>
    ELSE (IF PsnrMatch(Head(lines)) = None THEN <<>> ELSE PsnrMatch(Head(lines)))
         \o RecordsOf(Tail(lines))

\* C9: plain-text log: a record whose index is not the number of records
\* before it (a gap, a repeat, an index out of order, a first index other
\* than 0) fails the extraction with no result; when every record is in
\* order the result holds under 'PSNR_scores' the record values in file
\* order, one per record.
C9_PlainTextLog ==
    ExecRunOf("PSNR") =>
        LET recs == RecordsOf(log_file)
            inOrder == \A k \in DOMAIN recs : IntOf(recs[k][1]) = k - 1
            numeric == \A k \in DOMAIN recs : FloatOf(recs[k][2]) # None
        IN  /\ ~inOrder => NoResult
            /\ (inOrder /\ numeric /\ Len(recs) > 0) =>
                   /\ pc = "done"
                   /\ result = Some("PSNR_scores" :> [k \in DOMAIN recs |->
                                                        FloatOf(recs[k][2])[1]])

\* index 0, then index 2: the skipped index is fatal
C9_Witness ==
    /\ ExecRunOf("PSNR")
    /\ log_file = <<"psnr: 0 30.1", "psnr: 2 -5">>
    /\ NoResult

\* C10: both parsers fail, with no result, when no frame record is parsed
\* from the log; neither returns a result whose final-score sequence is
\* empty.
C10_ZeroFramesIsFatal ==
    /\ ExecRunOf("PSNR") =>
           /\ RecordsOf(log_file) = <<>> => NoResult
           /\ result # None => Len(result[1]["PSNR_scores"]) > 0
    /\ ExecRunOf("VMAFOSSEXEC") =>
           /\ log_file = <<>> => NoResult
           /\ result # None => Len(result[1]["VMAFOSSEXEC_scores"]) > 0

\* a log that has lines but no score record
C10_Witness ==
    /\ ExecRunOf("PSNR")
    /\ log_file = <<"ssim: 0 0.9", "ssim: 0 0.9">>
    /\ NoResult

-----------------------------------------------------------------------------
(* Properties of the raw-feature passthrough runners *)

\* the feature a passthrough variant declares as its quality score
DeclaredFeature(cls) ==
    IF cls = "SSIM" THEN "ssim"
    ELSE IF cls = "MS_SSIM" THEN "ms_ssim"
    ELSE IF cls = "STRRED" THEN "strred"
    ELSE IF cls = "ADM2" THEN "adm2"
    ELSE IF cls = "MOTION" THEN "motion"
    ELSE IF cls = "VIF_SCALE0" THEN "vif_scale0"
    ELSE IF cls = "VIF_SCALE1" THEN "vif_scale1"
    ELSE IF cls = "VIF_SCALE2" THEN "vif_scale2"
    ELSE "vif_scale3"

\* the extractor a passthrough variant asks for its feature
ProviderOf(cls) ==
    IF cls \in {"SSIM", "MS_SSIM", "STRRED"} THEN cls \o "_feature" ELSE "VMAF_feature"

\* the provider's key of the declared feature
ProviderKey(cls) == ProviderOf(cls) \o "_" \o DeclaredFeature(cls) \o "_scores"

PassthroughTypes ==
    {"SSIM", "MS_SSIM", "STRRED", "ADM2", "VIF_SCALE0", "VIF_SCALE1", "VIF_SCALE2",
     "VIF_SCALE3", "MOTION"}

PassthroughRun == op = "_run_on_asset" /\ runner.cls \in PassthroughTypes

\* the only call is the one to the Feature Provider, and the sequence under
\* '{type}_scores' is the provider's sequence of the declared feature
RepublishedUnchanged ==
    /\ pc = "done"
    /\ events = <<"feature_assembler.run">>
    /\ result # None
    /\ (runner.cls \o "_scores") \in DOMAIN result[1]
    /\ result[1][runner.cls \o "_scores"] = feature_result[ProviderKey(runner.cls)]

\* C11 as stated: every passthrough variant asks the Feature Provider for
\* its one declared feature only, and publishes under '{type}_scores' the
\* provider's sequence of that feature unchanged, with no regression.
C11_RequestsOnlyDeclaredFeature ==
    PassthroughRun =>
        /\ feature_dict = (ProviderOf(runner.cls) :> <<DeclaredFeature(runner.cls)>>)
        /\ RepublishedUnchanged

\* C11 (amended): every passthrough variant publishes under '{type}_scores'
\* the provider's sequence of its declared feature unchanged, and calls
\* nothing but the Feature Provider.  ADM2, VIF_SCALE0..3 and MOTION ask for
\* that one feature only and publish nothing else.  SSIM, MS_SSIM and STRRED
\* ask for every feature their extractor lists, the declared one among them,
\* and publish the other sequences unchanged under the provider's keys; the
\* provider's key of the declared feature is not in the result.
C11_Passthrough ==
    PassthroughRun =>
        /\ RepublishedUnchanged
        /\ \E i \in DOMAIN feature_dict[ProviderOf(runner.cls)] :
               feature_dict[ProviderOf(runner.cls)][i] = DeclaredFeature(runner.cls)
        /\ runner.cls \notin {"SSIM", "MS_SSIM", "STRRED"} =>
               /\ feature_dict = (ProviderOf(runner.cls) :> <<DeclaredFeature(runner.cls)>>)
               /\ DOMAIN result[1] = {runner.cls \o "_scores"}
        /\ runner.cls \in {"SSIM", "MS_SSIM", "STRRED"} =>
               /\ DOMAIN feature_dict = {ProviderOf(runner.cls)}
               /\ DOMAIN result[1] =
                      (DOMAIN feature_result \ {ProviderKey(runner.cls)})
                      \cup {runner.cls \o "_scores"}
               /\ \A k \in DOMAIN feature_result \ {ProviderKey(runner.cls)} :
                      result[1][k] = feature_result[k]

\* an SSIM run on two frames whose extractor lists four features: the ssim
\* sequence is republished in frame order next to the three others
C11_Witness ==
    /\ PassthroughRun
    /\ runner.cls = "SSIM"
    /\ Len(feature_dict["SSIM_feature"]) = 4
    /\ feature_result["SSIM_feature_ssim_scores"] = <<Rat(1, 2), Rat(9, 10)>>
    /\ result[1]["SSIM_scores"] = <<Rat(1, 2), Rat(9, 10)>>
    /\ DOMAIN result[1] = {"SSIM_scores", "SSIM_feature_ssim_l_scores",
                           "SSIM_feature_ssim_c_scores", "SSIM_feature_ssim_s_scores"}

-----------------------------------------------------------------------------
(* Properties of the identity and the result keys *)

\* the entries a completed run wrote into its result: one per entry of the
\* provider's result it kept, one for the final scores and, in the combined
\* native-output variant, one per declared sub-feature some frame carries
EntriesWritten ==
    IF runner.cls \in {"VMAF", "VMAF_Phone", "VMAF_legacy"}
    THEN Cardinality(DOMAIN feature_result) + 1
    ELSE IF runner.cls \in {"SSIM", "MS_SSIM", "STRRED"}
    THEN Cardinality(DOMAIN feature_result)
    ELSE IF runner.cls = "VMAFOSSEXEC"
    THEN 1 + Cardinality({k \in DOMAIN FEATURES : FramesWith(FEATURES[k]) # {}})
    ELSE 1

\* C12: every runner constructed is of exactly one concrete class, which
\* shares with no other class a (type, version) pair, a '{type}_scores' key
\* or a '{type}_score' key; the '{type}_{feature}_scores' keys of the
\* declared feature list of the combined native-output variant are pairwise
\* distinct and differ from its final-score keys; the result of every
\* completed run holds the final scores under '{type}_scores' and as many
\* entries as were written, so none overwrote another.
C12_KeysCollisionFree ==
    /\ op = "construct" =>
           /\ \E c \in DOMAIN TYPE : TYPE[c] = runner.cls
           /\ \A c1, c2 \in DOMAIN TYPE :
                  (TYPE[c1] = runner.cls /\ c2 # c1) =>
                      /\ <<TYPE[c1], VERSION[c1]>> # <<TYPE[c2], VERSION[c2]>>
                      /\ get_scores_key(TYPE[c1]) # get_scores_key(TYPE[c2])
                      /\ get_score_key(TYPE[c1]) # get_score_key(TYPE[c2])
    /\ (op = "construct" /\ runner.cls = "VMAFOSSEXEC") =>
           \A i, j \in DOMAIN FEATURES :
               /\ i # j => get_feature_scores_key("VMAFOSSEXEC", FEATURES[i])
                               # get_feature_scores_key("VMAFOSSEXEC", FEATURES[j])
               /\ get_feature_scores_key("VMAFOSSEXEC", FEATURES[i]) # "VMAFOSSEXEC_scores"
               /\ get_feature_scores_key("VMAFOSSEXEC", FEATURES[i]) # "VMAFOSSEXEC_score"
    /\ (op = "_run_on_asset" /\ pc = "done") =>
           /\ result # None
           /\ (runner.cls \o "_scores") \in DOMAIN result[1]
           /\ Cardinality(DOMAIN result[1]) = EntriesWritten

\* a run of the combined native-output variant that published the final
\* scores and two sub-features under three keys
C12_Witness ==
    /\ ExecRunOf("VMAFOSSEXEC")
    /\ pc = "done"
    /\ DOMAIN result[1] = {"VMAFOSSEXEC_scores", "VMAFOSSEXEC_adm2_scores",
                           "VMAFOSSEXEC_motion_scores"}

\* the (type, version) pair of a runner instance
Identity(r) ==
    LET c == CHOOSE c \in DOMAIN TYPE : TYPE[c] = r.cls
    IN  <<TYPE[c], VERSION[c]>>

\* C13: two runner instances with the same (type, version), run on the same
\* asset with the same per-frame feature values, produce the same result
\* keys and the same score sequences.
C13_IdentityStability ==
    (op = "twin_run_on_asset" /\ Identity(twin) = Identity(runner)) =>
        twin_result = result

-----------------------------------------------------------------------------
(* Properties of the model artifact *)

FeatureModelRun ==
    op = "_run_on_asset" /\ runner.cls \in {"VMAF", "VMAF_Phone", "VMAF_legacy"}

\* the number of calls of a kind among the calls made
CountOf(call) == Cardinality({i \in DOMAIN events : events[i] = call})

\* C14: in every run of a feature+model runner a load of the model artifact
\* precedes every call of predict; when the model file is missing or
\* unreadable the run ends at the failed load: predict is never called and
\* there is no result.
C14_LoadBeforePredict ==
    FeatureModelRun =>
        /\ \A i \in DOMAIN events :
               events[i] = "predict" => \E j \in 1..(i - 1) : events[j] = "load_model"
        /\ model_file = None =>
               /\ pc = "failed"
               /\ result = None
               /\ CountOf("predict") = 0
               /\ events # <<>>
               /\ events[Len(events)] = "load_model"

\* a legacy run whose model file is missing: the features were assembled,
\* the load failed and nothing was predicted
C14_Witness ==
    /\ FeatureModelRun
    /\ runner.cls = "VMAF_legacy"
    /\ model_file = None
    /\ events = <<"feature_assembler.run", "load_model">>
    /\ feature_result # EmptyDict
    /\ pc = "failed"
    /\ result = None

\* a completed run loaded the model artifact exactly once
LoadedOnce == (FeatureModelRun /\ pc = "done") => CountOf("load_model") = 1

\* the run writes nothing to the model artifact
RunKeepsModel == op' = "_run_on_asset" => model_file' = model_file

\* C15 as stated: a completed run of a feature+model runner loaded the
\* model artifact exactly once, and no step of a run writes to the model
\* artifact.
C15_LoadedOnce == []LoadedOnce /\ [][RunKeepsModel]_vars

\* the loads of one run: two in the general path, of which the first may
\* fail, one in the legacy path
LoadsPerRun ==
    FeatureModelRun =>
        CountOf("load_model") =
            IF runner.cls = "VMAF_legacy" THEN 1
            ELSE IF pc = "done" THEN 2
            ELSE 1

\* C15 (amended): one run of VmafQualityRunner or VmafPhoneQualityRunner
\* loads the model artifact from its file path twice, before the feature
\* assembly and again before predict; one run of VmafLegacyQualityRunner
\* loads it once; no step of a run writes to the model artifact.
C15_LoadsPerRun == []LoadsPerRun /\ [][RunKeepsModel]_vars

\* a completed general run that loaded twice a model carrying metadata
C15_Witness ==
    /\ FeatureModelRun
    /\ runner.cls = "VMAF"
    /\ pc = "done"
    /\ events = <<"load_model", "feature_assembler.run", "load_model", "predict">>
    /\ model_file # None
    /\ "score_transform" \in DOMAIN model_file[1]

\* C16: when a transform specification sets both out_lte_in and out_gte_in,
\* transform_score returns its input elementwise, whatever the polynomial
\* coefficients are.
C16_BothFlagsGiveInput ==
    (/\ op = "transform_score"
     /\ "score_transform" \in DOMAIN args.model
     /\ FlagSet(args.model["score_transform"], "out_lte_in")
     /\ FlagSet(args.model["score_transform"], "out_gte_in")) =>
        ret = args.ys_pred

\* both flags set, a polynomial below its input at one element and above it
\* at another: the output is the input
C16_Witness ==
    /\ op = "transform_score"
    /\ "score_transform" \in DOMAIN args.model
    /\ FlagSet(args.model["score_transform"], "out_lte_in")
    /\ FlagSet(args.model["score_transform"], "out_gte_in")
    /\ \E i, j \in DOMAIN args.ys_pred :
           /\ RatLT(PolyValue(args.model["score_transform"], args.ys_pred[i]),
                    args.ys_pred[i])
           /\ RatLT(args.ys_pred[j],
                    PolyValue(args.model["score_transform"], args.ys_pred[j]))
    /\ ret = args.ys_pred

====
